---- MODULE Spec2Model ----
(***************************************************************************)
(* A model of the mvvm view bindings: the scalar bindings, the choice and  *)
(* combo resolvers of mvvm/viewbinding/interactive.py and display.py, and  *)
(* the grid binding of mvvm/viewbinding/grid2.py.                          *)
(*                                                                         *)
(* All handlers run synchronously on the UI thread, so one action is one   *)
(* top-level event (a constructor call, an assignment to the model         *)
(* attribute by the application, a user gesture) together with the whole   *)
(* chain of update_view / update_model calls it triggers.                  *)
(***************************************************************************)
EXTENDS Integers, Sequences, FiniteSets, TLC

VARIABLES
    kind,        \* which binding class is constructed
    readonly,    \* the constructor's readonly argument
    echo,        \* environment: a programmatic widget setter fires the change event
    radio,       \* ChoiceBinding: the field is a wx.RadioBox
    dynamic,     \* ChoiceBinding: choices given as an (instance, trait) pair
    sentinel,    \* show_if_value / enabled_if_value / focus_if_value
    trait,       \* the value of the bound model attribute
    source,      \* the value of the attribute the dynamic choices come from
    field,       \* what the widget shows (text, checked, position, shown, ...)
    items,       \* the widget's item list (choice, combo box)
    selection,   \* the widget's selection index (choice, combo box)
    choices,     \* self.choices: the ordered key -> text mapping
    bound,       \* the widget's change event is bound to a handler
    subscribed,  \* update_view is subscribed to the model attribute
    dynSubscribed, \* the update_choices closure is subscribed to the source
    pc,          \* "new" before the constructor has run, "ready" after
    err,         \* a handler raised an exception
    overflow,    \* the chain of handler calls was cut off at MaxLog
    log,         \* the calls made during the last action, in order
    last,        \* the last action and its argument
    prev,        \* the action before it
    commit_on,   \* GridBinding: "cell", "row", "col" or "grid"
    cursor,      \* the grid cursor <<row, col>>
    editing,     \* the cell edit control is enabled (on the cursor's cell)
    editText,    \* what the edit control holds: "same", "ok" or "bad"
    numRows,     \* table.GetNumberRows()
    invalid,     \* the cells whose value the table's validation rejects
    veto_next_select_cell,
    pending,     \* the wx.CallAfter queue: targets of do_select_cell
    glog,        \* the calls made during the last grid gesture, in order
    glast,       \* the last grid gesture
    lsel,        \* ListBinding: the row indexes selected in the list control
    lmodel,      \* the model's <trait>_selection: the selected row objects
    lecho,       \* environment: SetItemState fires the (de)selected event
    loverflow,   \* the chain of list handler calls was cut off
    llog,        \* the calls made during the last list action, in order
    llast,       \* the last list action and its argument
    ptrait,      \* two TextBindings: the value of the shared model attribute
    pfield,      \* what each of the two text fields shows
    psubs,       \* the constructed bindings, in the order they subscribed
    pecho,       \* environment: SetValue fires EVT_TEXT
    poverflow,   \* the chain of handler calls was cut off at MaxLog
    plog,        \* the calls made during the last action, in order
    plast,       \* the last action, the widget and the value it is about
    ovalue,      \* observable model: the value of the attribute
    osubscribed, \* the callback is subscribed to the attribute
    ocalls,      \* the values the callback was called with, in order
    olast        \* the last action on the observable model and its argument

bvars == <<kind, readonly, echo, radio, dynamic, sentinel, trait, source, field,
           items, selection, choices, bound, subscribed, dynSubscribed, pc,
           err, overflow, log, last, prev>>

gvars == <<commit_on, cursor, editing, editText, numRows, invalid,
           veto_next_select_cell, pending, glog, glast>>

lvars == <<lsel, lmodel, lecho, loverflow, llog, llast>>

pvars == <<ptrait, pfield, psubs, pecho, poverflow, plog, plast>>

ovars == <<ovalue, osubscribed, ocalls, olast>>

vars == <<bvars, gvars, lvars, pvars, ovars>>

(***************************************************************************)
(* Python values.  Every value is a record of the same shape, so that      *)
(* values of different Python types can be compared.                       *)
(***************************************************************************)
None == [t |-> "none", s |-> "", n |-> 0]

Str(x) == [t |-> "str", s |-> x, n |-> 0]

Num(k) == [t |-> "int", s |-> "", n |-> k]

Bool(p) == [t |-> "bool", s |-> "", n |-> IF p THEN 1 ELSE 0]

\* a datetime.datetime: n = 10 * seconds + sub-second part
Date(k) == [t |-> "date", s |-> "", n |-> k]

\* a wx.DateTime: n = seconds (time_t resolution)
WxDate(k) == [t |-> "wxdate", s |-> "", n |-> k]

\* Python's == : bool is a subtype of int (True == 1, False == 0); values of
\* unrelated types are unequal.
PyEq(a, b) ==
    IF a.t \in {"int", "bool"} /\ b.t \in {"int", "bool"}
    THEN a.n = b.n
    ELSE a = b

\* Python's truth value
Truthy(a) ==
    CASE a.t = "none" -> FALSE
      [] a.t = "str"  -> a.s # ""
      [] a.t \in {"int", "bool"} -> a.n # 0
      [] OTHER -> TRUE

Digit(d) == <<"0", "1", "2", "3", "4", "5", "6", "7", "8", "9">>[d + 1]

RECURSIVE IntText(_)
IntText(k) == IF k < 10 THEN Digit(k) ELSE IntText(k \div 10) \o Digit(k % 10)

\* unicode(x) / str(x)
Unicode(a) ==
    CASE a.t = "none" -> "None"
      [] a.t = "str"  -> a.s
      [] a.t = "int"  -> IntText(a.n)
      [] a.t = "bool" -> IF a.n = 1 THEN "True" ELSE "False"
      [] OTHER -> "T" \o IntText(a.n)


(***************************************************************************)
(* Bounds and the values the inputs are drawn from.                        *)
(***************************************************************************)
\* the longest chain of calls one action may log before it is cut off
MaxLog == 16

\* the largest slider position
MaxPos == 2

Strings == {"", "Bouke", "Arie", "Kees"}

\* datetimes: two whole seconds, and one with a sub-second part
Dates == {Date(10), Date(11), Date(20)}

Keys == {Str("a"), Str("b"), Str("c")}

Item(k, x) == [key |-> k, text |-> x]

\* the text a choice shows for a key
KeyText(k) == "item " \o k.s

ChoiceOf(ks) == [i \in 1..Len(ks) |-> Item(ks[i], KeyText(ks[i]))]

\* ordered key -> text mappings (OrderedDict): the keys are distinct
ChoiceSets ==
    { ChoiceOf(ks) : ks \in { <<>>, <<Str("a")>>, <<Str("a"), Str("b")>>,
                              <<Str("b"), Str("a")>>, <<Str("b"), Str("c")>> } }

Kinds == {"text", "label", "title", "status", "check", "slider", "date",
          "datetime", "show", "enable", "focus", "choice", "combo"}

\* the values the bound model attribute may hold, per binding class
ModelDom(k) ==
    CASE k = "text"     -> {None, Num(0), Num(5)} \cup {Str(x) : x \in Strings}
      [] k \in {"label", "title"} -> {None, Num(5), Str("Bouke"), Str("Arie")}
      [] k = "status"   -> {Str(x) : x \in Strings}
      [] k = "check"    -> {None, Bool(FALSE), Bool(TRUE), Num(1), Num(2)}
      [] k = "slider"   -> {Num(i) : i \in 0..MaxPos}
      [] k \in {"date", "datetime"} -> {None} \cup Dates
      [] k \in {"show", "enable", "focus"} ->
             {None, Bool(FALSE), Bool(TRUE), Num(0), Num(1), Num(2)}
      [] k \in {"choice", "combo"} -> {None} \cup Keys

\* the date/time field's text for n seconds
DateText(n) == "t" \o IntText(n)

\* what the widget may show: before the binding exists, or after a user edit
FieldDom(k) ==
    CASE k = "text"     -> {Str(x) : x \in Strings \cup {"5"}}
      [] k \in {"label", "title", "status"} -> {Str(""), Str("Bouke")}
      [] k = "check"    -> {Bool(FALSE), Bool(TRUE)}
      [] k = "slider"   -> {Num(i) : i \in 0..MaxPos}
      [] k = "date"     -> {WxDate(1), WxDate(2)}
      [] k = "datetime" -> {Str(""), Str(DateText(1)), Str(DateText(2)), Str("bad")}
      [] k \in {"show", "enable", "focus"} -> {Bool(FALSE), Bool(TRUE)}
      [] k = "choice"   -> {None}
      [] k = "combo"    -> {Str(""), Str("A"), Str("Arie"), Str("Bouke"), Str("x")}

Sentinels == {Bool(TRUE), Bool(FALSE), Num(0), Num(1), Num(2)}

\* CheckBinding's default values=(False, True)
CheckValues == <<Bool(FALSE), Bool(TRUE)>>

(***************************************************************************)
(* The collaborators: the observable attribute, the date conversions, the  *)
(* combo box's choice provider.                                            *)
(***************************************************************************)
\* an assignment notifies the subscribers when the attribute changes
Notifies(old, new) == ~PyEq(old, new)

\* new.strftime(self.field._datetime_format): the format shows whole seconds
Strftime(d) == DateText(d.n \div 10)

\* field.IsValid(): the text is a date in the field's format
IsValidText(x) == x \in {DateText(1), DateText(2)}

\* field.GetDateTimeValue()
GetDateTimeValue(x) ==
    CASE x = DateText(1) -> Date(10)
      [] x = DateText(2) -> Date(20)
      [] OTHER -> None

\* wx.DateTimeFromTimeT(time.mktime(new.timetuple())): whole seconds
DateTimeFromTimeT(d) == WxDate(d.n \div 10)

\* datetime.datetime.fromtimestamp(value.GetTicks())
FromTimestamp(w) == Date(w.n * 10)

\* the choice provider's entries
ProviderItems == <<Item(Str("a"), "Arie"), Item(Str("b"), "Bouke")>>

\* choice_provider.get_display_text(data)
GetDisplayText(data) ==
    IF \E i \in 1..Len(ProviderItems) : ProviderItems[i].key = data
    THEN ProviderItems[CHOOSE i \in 1..Len(ProviderItems) : ProviderItems[i].key = data].text
    ELSE ""

\* the entries whose text starts with the typed text
StartsWith(x, typed) ==
    \/ typed = ""
    \/ typed = x
    \/ typed = "A" /\ x = "Arie"

\* choice_provider.get_choices(text), in the provider's order
GetChoices(typed) ==
    SelectSeq(ProviderItems, LAMBDA it : StartsWith(it.text, typed))


(***************************************************************************)
(* The handlers.  b is the binding with its widget and its model           *)
(* attribute; every handler returns b as it is when the handler returns,   *)
(* the calls it made (and the calls those made) included.                  *)
(***************************************************************************)
Entry(op, val, old, id) == [op |-> op, val |-> val, old |-> old, id |-> id]

Logged(b, e) == [b EXCEPT !.log = Append(@, e)]

Full(b) == Len(b.log) >= MaxLog

Cut(b) == [b EXCEPT !.overflow = TRUE]

\* what the widget shows, as a value
Shown(b) == IF b.kind = "choice" THEN Num(b.selection) ELSE b.field

\* the binding classes with an update_model bound to the widget's event
HasUpdateModel(k) == k \in {"check", "choice", "text", "slider", "datetime", "date"}

\* keys.index(new) + 1, or 0 for ValueError
KeyIndex(ch, v) ==
    IF \E i \in 1..Len(ch) : PyEq(ch[i].key, v)
    THEN CHOOSE i \in 1..Len(ch) :
             /\ PyEq(ch[i].key, v)
             /\ \A j \in 1..(i - 1) : ~PyEq(ch[j].key, v)
    ELSE 0

\* the index of the first item with this text, plus 1, or 0 when there is none
TextIndex(its, x) ==
    IF \E i \in 1..Len(its) : its[i].text = x
    THEN CHOOSE i \in 1..Len(its) :
             /\ its[i].text = x
             /\ \A j \in 1..(i - 1) : its[j].text # x
    ELSE 0

\* the items a wx.Choice / wx.RadioBox shows for self.choices.values()
ItemsOf(ch) == [i \in 1..Len(ch) |-> Item(None, ch[i].text)]

\* the write-back guards: getattr(self.instance, self.trait) != value
CheckGuard(cur, value) == ~PyEq(cur, value)

\* a write-back without the guard
TextGuard_always(cur, value) == TRUE

TextGuard(cur, value) == ~PyEq(cur, value)

SliderGuard(cur, value) == ~PyEq(cur, value)

DateTimeGuard(valid, cur, value) == valid /\ ~PyEq(cur, value)

DateGuard(cur, value) == ~PyEq(cur, value)

ChoiceGuard(cur, value) == ~PyEq(cur, value)

ComboGuard(cur, value) == ~PyEq(cur, value)

\* 0 <= self.field.GetSelection() < len(self.choices.keys())
ChoiceInRange(sel, ch) == 0 <= sel /\ sel < Len(ch)

\* a view guard that compares the wrong way round
TextViewGuard_inverted(shown, new) == PyEq(shown, new)

\* the view guards: self.field.GetValue() != new
TextViewGuard(shown, new) == ~PyEq(shown, new)

SliderViewGuard(shown, new) == ~PyEq(shown, new)

\* DateTimeBinding compares the field's text with the datetime itself
DateTimeViewGuard(shown, new, value) == ~PyEq(shown, new)

DateViewGuard(shown, new) == ~PyEq(shown, new)

\* new and unicode(new) or ''
TextDisplay(new) == IF Truthy(new) /\ Unicode(new) # "" THEN Unicode(new) ELSE ""

\* ShowBinding: type(self.show_if_value) == bool
ShowCoerces(sv) == sv.t = "bool"

\* EnabledBinding: self.enabled_if_value == True or self.enabled_if_value == False
EnableCoerces(sv) == PyEq(sv, Bool(TRUE)) \/ PyEq(sv, Bool(FALSE))

ShowValue(value, sv) ==
    PyEq(IF ShowCoerces(sv) THEN Bool(Truthy(value)) ELSE value, sv)

EnableValue(value, sv) ==
    PyEq(IF EnableCoerces(sv) THEN Bool(Truthy(value)) ELSE value, sv)

\* the selection of a freshly filled widget: a wx.RadioBox always selects its
\* first button, a wx.Choice whose items were replaced selects nothing
SelectionAfterFill(isRadio, n) == IF isRadio /\ n > 0 THEN 0 ELSE -1

RECURSIVE SetAttr(_, _, _), UpdateView(_, _), UpdateModel(_), WidgetSet(_, _),
          SetSelection(_, _), OnText(_)

\* setattr(self.instance, self.trait, v), by the application (by = -1), the
\* constructor (by = 0) or the update_model call logged at position by
SetAttr(b, v, by) ==
    IF Full(b) THEN Cut(b) ELSE
    LET b1 == Logged([b EXCEPT !.trait = v], Entry("write", v, b.trait, by))
    IN  IF b.subscribed /\ Notifies(b.trait, v) THEN UpdateView(b1, v) ELSE b1

\* field.SetValue / SetLabel / SetTitle / SetStatusText / Show / Enable
WidgetSet(b, val) ==
    IF Full(b) THEN Cut(b) ELSE
    LET b1 == Logged([b EXCEPT !.field = val,
                               !.selection = IF b.kind = "combo" THEN -1 ELSE @],
                     Entry("set", val, b.field, 0))
    IN  IF b.echo /\ b.bound
        THEN IF b.kind = "combo" THEN OnText(b1) ELSE UpdateModel(b1)
        ELSE b1

\* field.SetSelection(i)
SetSelection(b, i) ==
    IF Full(b) THEN Cut(b) ELSE
    LET b1 == Logged([b EXCEPT !.selection = i],
                     Entry("set", Num(i), Num(b.selection), 0))
    IN  IF b.echo /\ b.bound THEN UpdateModel(b1) ELSE b1

\* ComboBinding: field.SetStringSelection(text)
SetStringSelection(b, x) ==
    IF TextIndex(b.items, x) = 0 THEN b
    ELSE [b EXCEPT !.selection = TextIndex(b.items, x) - 1, !.field = Str(x)]

\* ChoiceBinding.update_choices
Choice_update_choices(b) ==
    [b EXCEPT !.items = ItemsOf(b.choices),
              !.selection = SelectionAfterFill(b.radio, Len(b.choices)),
              !.bound = IF b.radio THEN ~b.readonly ELSE @]

\* the update_choices closure of ChoiceBinding.__init__
Closure_update_choices(b) == Choice_update_choices([b EXCEPT !.choices = b.source])

Check_update_view(b, new) == WidgetSet(b, Bool(PyEq(new, CheckValues[2])))

Text_update_view(b, new) ==
    IF TextViewGuard(b.field, new) THEN WidgetSet(b, Str(TextDisplay(new))) ELSE b

Slider_update_view(b, new) ==
    IF SliderViewGuard(b.field, new) THEN WidgetSet(b, new) ELSE b

DateTime_update_view(b, new) ==
    IF Truthy(new)
    THEN IF DateTimeViewGuard(b.field, new, Str(Strftime(new)))
         THEN WidgetSet(b, Str(Strftime(new)))
         ELSE b
    ELSE b

\* None has no timetuple(): the handler raises
Date_update_view(b, new) ==
    IF new.t # "date" THEN [b EXCEPT !.err = TRUE]
    ELSE IF DateViewGuard(b.field, DateTimeFromTimeT(new))
         THEN WidgetSet(b, DateTimeFromTimeT(new))
         ELSE b

\* an update_view that clears the selection for a value it does not find
Choice_update_view_clears(b, new) ==
    IF Len(b.choices) = 0 THEN b
    ELSE SetSelection(b, KeyIndex(b.choices, new) - 1)

Choice_update_view(b, new) ==
    IF Len(b.choices) = 0 THEN b
    ELSE IF KeyIndex(b.choices, new) = 0 THEN b
         ELSE SetSelection(b, KeyIndex(b.choices, new) - 1)

Combo_update_view(b, data) ==
    LET b1 == WidgetSet(b, Str(GetDisplayText(data)))
    IN  SetStringSelection(b1, GetDisplayText(data))

Show_update_view(b) == WidgetSet(b, Bool(ShowValue(b.trait, b.sentinel)))

Enabled_update_view(b) == WidgetSet(b, Bool(EnableValue(b.trait, b.sentinel)))

Focus_update_view(b) ==
    IF PyEq(b.trait, b.sentinel) THEN WidgetSet(b, Bool(TRUE)) ELSE b

Label_update_view(b) == WidgetSet(b, Str(Unicode(b.trait)))

StatusBar_update_view(b) == WidgetSet(b, b.trait)

Title_update_view(b) == WidgetSet(b, Str(Unicode(b.trait)))

UpdateView(b, new) ==
    IF Full(b) THEN Cut(b) ELSE
    LET b1 == Logged(b, Entry("uv", new, Shown(b), 0))
    IN  CASE b.kind = "check"    -> Check_update_view(b1, new)
          [] b.kind = "text"     -> Text_update_view(b1, new)
          [] b.kind = "slider"   -> Slider_update_view(b1, new)
          [] b.kind = "datetime" -> DateTime_update_view(b1, new)
          [] b.kind = "date"     -> Date_update_view(b1, new)
          [] b.kind = "choice"   -> Choice_update_view(b1, new)
          [] b.kind = "combo"    -> Combo_update_view(b1, new)
          [] b.kind = "show"     -> Show_update_view(b1)
          [] b.kind = "enable"   -> Enabled_update_view(b1)
          [] b.kind = "focus"    -> Focus_update_view(b1)
          [] b.kind = "label"    -> Label_update_view(b1)
          [] b.kind = "status"   -> StatusBar_update_view(b1)
          [] b.kind = "title"    -> Title_update_view(b1)

\* an update_model that reads the other of the two values
Check_update_model_swapped(b) ==
    LET value == CheckValues[2 - b.field.n]
        id == Len(b.log) + 1
        b1 == Logged(b, Entry("um", value, b.trait, id))
    IN  IF CheckGuard(b.trait, value) THEN SetAttr(b1, value, id) ELSE b1

\* each update_model is logged with the value it read from the widget and the
\* attribute's value at that moment; id is its position in the log
Check_update_model(b) ==
    LET value == CheckValues[b.field.n + 1]
        id == Len(b.log) + 1
        b1 == Logged(b, Entry("um", value, b.trait, id))
    IN  IF CheckGuard(b.trait, value) THEN SetAttr(b1, value, id) ELSE b1

Text_update_model(b) ==
    LET value == b.field
        id == Len(b.log) + 1
        b1 == Logged(b, Entry("um", value, b.trait, id))
    IN  IF TextGuard(b.trait, value) THEN SetAttr(b1, value, id) ELSE b1

Slider_update_model(b) ==
    LET value == b.field
        id == Len(b.log) + 1
        b1 == Logged(b, Entry("um", value, b.trait, id))
    IN  IF SliderGuard(b.trait, value) THEN SetAttr(b1, value, id) ELSE b1

DateTime_update_model(b) ==
    LET value == GetDateTimeValue(b.field.s)
        id == Len(b.log) + 1
        b1 == Logged(b, Entry("um", value, b.trait, id))
    IN  IF DateTimeGuard(IsValidText(b.field.s), b.trait, value)
        THEN SetAttr(b1, value, id)
        ELSE b1

Date_update_model(b) ==
    LET value == FromTimestamp(b.field)
        id == Len(b.log) + 1
        b1 == Logged(b, Entry("um", value, b.trait, id))
    IN  IF DateGuard(b.trait, value) THEN SetAttr(b1, value, id) ELSE b1

\* a call that finds no item selected is logged as "um0"
Choice_update_model(b) ==
    LET inRange == ChoiceInRange(b.selection, b.choices)
        value == IF inRange THEN b.choices[b.selection + 1].key ELSE None
        id == Len(b.log) + 1
        b1 == Logged(b, Entry(IF inRange THEN "um" ELSE "um0", value, b.trait, id))
    IN  IF inRange /\ ChoiceGuard(b.trait, value) THEN SetAttr(b1, value, id) ELSE b1

UpdateModel(b) ==
    IF Full(b) THEN Cut(b) ELSE
    CASE b.kind = "check"    -> Check_update_model(b)
      [] b.kind = "text"     -> Text_update_model(b)
      [] b.kind = "slider"   -> Slider_update_model(b)
      [] b.kind = "datetime" -> DateTime_update_model(b)
      [] b.kind = "date"     -> Date_update_model(b)
      [] b.kind = "choice"   -> Choice_update_model(b)
      [] OTHER -> b

\* an on_text that rebuilds the suggestions whatever is selected
OnText_ignores_selection(b) ==
    IF Full(b) THEN Cut(b) ELSE
    LET id == Len(b.log) + 1
        b1 == Logged(b, Entry("text", b.field, b.trait, id))
        b2 == IF ~Truthy(b1.field) THEN SetAttr(b1, None, id) ELSE b1
    IN  [b2 EXCEPT !.items = GetChoices(b2.field.s), !.selection = -1]

\* ComboBinding.on_text
OnText(b) ==
    IF Full(b) THEN Cut(b) ELSE
    LET id == Len(b.log) + 1
        b1 == Logged(b, Entry("text", b.field, b.trait, id))
    IN  IF b.selection # -1 THEN b1
        ELSE LET b2 == IF ~Truthy(b1.field) THEN SetAttr(b1, None, id) ELSE b1
             IN  [b2 EXCEPT !.items = GetChoices(b2.field.s), !.selection = -1]

\* ComboBinding.update_model, for an event whose Selection is sel
Combo_update_model(b, sel) ==
    LET ok == sel # -1
        value == IF ok THEN b.items[sel + 1].key ELSE b.trait
        id == Len(b.log) + 1
        b1 == Logged(b, Entry("um", value, b.trait, id))
    IN  IF ok /\ ComboGuard(b.trait, value) THEN SetAttr(b1, value, id) ELSE b1


(***************************************************************************)
(* The constructors.                                                       *)
(***************************************************************************)
\* a constructor that forgets the readonly argument
Scalar_init_ignores_readonly(b) ==
    LET b1 == UpdateView([b EXCEPT !.subscribed = TRUE], b.trait)
    IN  [b1 EXCEPT !.bound = HasUpdateModel(b.kind)]

\* CheckBinding, TextBinding, SliderBinding, DateTimeBinding, and the display
\* bindings (which bind no widget event): subscribe, push the current value,
\* then bind the widget's event unless readonly
Scalar_init(b) ==
    LET b1 == UpdateView([b EXCEPT !.subscribed = TRUE], b.trait)
    IN  [b1 EXCEPT !.bound = HasUpdateModel(b.kind) /\ ~b.readonly]

\* DateBinding.__init__; now is datetime.datetime.now()
Date_init(b, now) ==
    LET value == IF Truthy(b.trait) THEN b.trait ELSE now
        b1 == UpdateView([b EXCEPT !.subscribed = TRUE], value)
        b2 == SetAttr(b1, value, 0)
    IN  [b2 EXCEPT !.bound = ~b.readonly]

\* ChoiceBinding.__init__
Choice_init(b) ==
    LET b1 == IF b.dynamic
              THEN [Closure_update_choices(b) EXCEPT !.dynSubscribed = TRUE]
              ELSE Choice_update_choices(b)
        b2 == UpdateView([b1 EXCEPT !.subscribed = TRUE], b1.trait)
        b3 == UpdateModel(b2)
    IN  [b3 EXCEPT !.bound = @ \/ ~b.readonly]

\* ComboBinding.__init__: binds the events first, subscribes to nothing
Combo_init(b) == UpdateView([b EXCEPT !.bound = TRUE], b.trait)

(***************************************************************************)
(* The state machine of one binding.                                       *)
(***************************************************************************)
St == [kind |-> kind, readonly |-> readonly, echo |-> echo, radio |-> radio,
       dynamic |-> dynamic, sentinel |-> sentinel, trait |-> trait,
       source |-> source, field |-> field, items |-> items,
       selection |-> selection, choices |-> choices, bound |-> bound,
       subscribed |-> subscribed, dynSubscribed |-> dynSubscribed,
       err |-> FALSE, overflow |-> FALSE, log |-> <<>>]

\* the state after an action that leaves the binding as r
Becomes(r, act, arg) ==
    /\ trait' = r.trait
    /\ source' = r.source
    /\ field' = r.field
    /\ items' = r.items
    /\ selection' = r.selection
    /\ choices' = r.choices
    /\ bound' = r.bound
    /\ subscribed' = r.subscribed
    /\ dynSubscribed' = r.dynSubscribed
    /\ err' = r.err
    /\ overflow' = r.overflow
    /\ log' = r.log
    /\ last' = [act |-> act, arg |-> arg]
    /\ prev' = last
    /\ UNCHANGED <<kind, readonly, echo, radio, dynamic, sentinel>>
    /\ UNCHANGED <<gvars, lvars, pvars, ovars>>

HasReadonly(k) == k \in {"check", "choice", "text", "slider", "datetime", "date"}

\* no pair of text bindings is constructed
NoPair ==
    /\ ptrait = None
    /\ pfield = <<Str(""), Str("")>>
    /\ psubs = <<>>
    /\ pecho = FALSE
    /\ poverflow = FALSE
    /\ plog = <<>>
    /\ plast = [act |-> "Init", who |-> 0, arg |-> None]

\* no observable model with a callback is set up
NoObserver ==
    /\ ovalue = None
    /\ osubscribed = FALSE
    /\ ocalls = <<>>
    /\ olast = [act |-> "Init", arg |-> None]

\* no list binding is constructed
NoList ==
    /\ lsel = {}
    /\ lmodel = {}
    /\ lecho = FALSE
    /\ loverflow = FALSE
    /\ llog = <<>>
    /\ llast = [act |-> "Init", arg |-> {}]

\* no grid is bound
NoGrid ==
    /\ commit_on = "grid"
    /\ cursor = <<0, 0>>
    /\ editing = FALSE
    /\ editText = "same"
    /\ numRows = 1
    /\ invalid = {}
    /\ veto_next_select_cell = FALSE
    /\ pending = <<>>
    /\ glog = <<>>
    /\ glast = "Init"

Init ==
    /\ NoList
    /\ NoPair
    /\ NoObserver
    /\ kind \in Kinds
    /\ readonly \in (IF HasReadonly(kind) THEN BOOLEAN ELSE {FALSE})
    /\ echo \in BOOLEAN
    /\ radio \in (IF kind = "choice" THEN BOOLEAN ELSE {FALSE})
    /\ dynamic \in (IF kind = "choice" THEN BOOLEAN ELSE {FALSE})
    /\ sentinel \in (IF kind \in {"show", "enable", "focus"} THEN Sentinels
                     ELSE {Bool(TRUE)})
    /\ trait \in ModelDom(kind)
    /\ field \in FieldDom(kind)
    /\ source \in (IF dynamic THEN ChoiceSets ELSE {<<>>})
    /\ choices \in (IF kind = "choice" /\ ~dynamic THEN ChoiceSets ELSE {<<>>})
    /\ items = <<>>
    /\ selection = -1
    /\ bound = FALSE
    /\ subscribed = FALSE
    /\ dynSubscribed = FALSE
    /\ pc = "new"
    /\ err = FALSE
    /\ overflow = FALSE
    /\ log = <<>>
    /\ last = [act |-> "Init", arg |-> None]
    /\ prev = [act |-> "Init", arg |-> None]
    /\ NoGrid

\* the binding is constructed on the widget and the model as they are
Construct ==
    /\ pc = "new"
    /\ pc' = "ready"
    /\ \E now \in Dates :
          Becomes(CASE kind = "date"   -> Date_init(St, now)
                    [] kind = "choice" -> Choice_init(St)
                    [] kind = "combo"  -> Combo_init(St)
                    [] OTHER           -> Scalar_init(St),
                  "Construct", trait)

\* the application assigns v to the bound model attribute
ModelSet ==
    /\ pc = "ready"
    /\ UNCHANGED pc
    /\ \E v \in ModelDom(kind) : Becomes(SetAttr(St, v, -1), "ModelSet", v)

\* the user changes the widget to w, and the widget fires its change event
UserEdit ==
    /\ pc = "ready"
    /\ HasUpdateModel(kind) /\ kind # "choice"
    /\ UNCHANGED pc
    /\ \E w \in FieldDom(kind) :
          LET b == [St EXCEPT !.field = w]
          IN  Becomes(IF bound THEN UpdateModel(b) ELSE b, "UserEdit", w)

\* the user selects item i of the choice
UserSelect ==
    /\ pc = "ready"
    /\ kind = "choice"
    /\ UNCHANGED pc
    /\ \E i \in 0..(Len(items) - 1) :
          LET b == [St EXCEPT !.selection = i]
          IN  Becomes(IF bound THEN UpdateModel(b) ELSE b, "UserSelect", Num(i))

\* the attribute the dynamic choices come from is assigned the choice set c
ChoicesSet ==
    /\ pc = "ready"
    /\ kind = "choice" /\ dynamic
    /\ UNCHANGED pc
    /\ \E c \in ChoiceSets :
          LET b == [St EXCEPT !.source = c]
          IN  Becomes(IF dynSubscribed /\ c # source
                      THEN Closure_update_choices(b) ELSE b,
                      "ChoicesSet", Bool(dynSubscribed /\ c # source))

\* the user types x into the combo box
ComboType ==
    /\ pc = "ready"
    /\ kind = "combo"
    /\ UNCHANGED pc
    /\ \E w \in FieldDom(kind) :
          Becomes(OnText([St EXCEPT !.field = w, !.selection = -1]),
                  "ComboType", w)

\* the user picks item i of the combo box's list: EVT_COMBOBOX, and where the
\* platform also fires EVT_TEXT for a selection, on_text after it
ComboPick ==
    /\ pc = "ready"
    /\ kind = "combo"
    /\ UNCHANGED pc
    /\ \E i \in 0..(Len(items) - 1) :
          LET b == [St EXCEPT !.selection = i, !.field = Str(items[i + 1].text)]
              b1 == Combo_update_model(b, i)
          IN  Becomes(IF echo THEN OnText(b1) ELSE b1, "ComboPick", Num(i))

Next ==
    \/ Construct
    \/ ModelSet
    \/ UserEdit
    \/ UserSelect
    \/ ChoicesSet
    \/ ComboType
    \/ ComboPick

Spec == Init /\ [][Next]_vars


(***************************************************************************)
(* Properties of the bindings.                                             *)
(***************************************************************************)
\* the positions of the log where the model attribute was written by the
\* update_model call logged at position i
WritesBy(i) == {j \in 1..Len(log) : log[j].op = "write" /\ log[j].id = i}

\* the binding itself called update_model or wrote the model attribute
BindingWrote ==
    \E i \in 1..Len(log) :
        \/ log[i].op \in {"um", "um0"}
        \/ log[i].op = "write" /\ log[i].id >= 0

\* C1: a read-write TextBinding on a string: the field shows the string when
\* the constructor returns; it shows s1 after the model attribute is set to a
\* string s1; the model attribute is s2 after the user types s2.
C1_TextScenario ==
    (kind = "text" /\ ~readonly /\ pc = "ready") =>
        /\ (last.act = "Construct" /\ last.arg.t = "str") =>
               (field = last.arg /\ trait = last.arg)
        /\ (last.act = "ModelSet" /\ last.arg.t = "str") =>
               (field = last.arg /\ trait = last.arg)
        /\ (last.act = "UserEdit") => (trait = last.arg /\ field = last.arg)

\* the user typed Kees after the model attribute had been set to Arie
C1_Witness ==
    /\ kind = "text" /\ ~readonly /\ echo
    /\ last = [act |-> "UserEdit", arg |-> Str("Kees")]
    /\ prev = [act |-> "ModelSet", arg |-> Str("Arie")]
    /\ trait = Str("Kees")

\* the binding classes C2 and C4 call scalar
ScalarKinds == {"text", "label", "title", "status", "check", "slider", "date",
                "datetime", "show", "enable"}

\* the widget shows the value v of the model attribute
Displays(k, shown, v, sv) ==
    CASE k = "text"     -> shown = Str(IF Truthy(v) THEN Unicode(v) ELSE "")
      [] k \in {"label", "title"} -> shown = Str(Unicode(v))
      [] k = "status"   -> shown = v
      [] k = "check"    -> shown = Bool(PyEq(v, Bool(TRUE)))
      [] k = "slider"   -> shown = v
      [] k = "date"     -> v.t = "date" /\ shown = WxDate(v.n \div 10)
      [] k = "datetime" -> shown = Str(IF v.t = "none" THEN ""
                                       ELSE DateText(v.n \div 10))
      [] k = "show"     -> shown = Bool(ShowValue(v, sv))
      [] k = "enable"   -> shown = Bool(EnableValue(v, sv))
      [] k = "focus"    -> PyEq(v, sv) => shown = Bool(TRUE)
      [] k = "combo"    -> shown = Str(GetDisplayText(v))
      [] OTHER -> TRUE

\* C2: when the constructor of a scalar binding returns, the widget shows the
\* model attribute's current value, whatever it is (null included), and no
\* widget event handler of the binding has run.
C2_ConstructSyncs ==
    (pc = "ready" /\ last.act = "Construct" /\ kind \in ScalarKinds) =>
        /\ subscribed
        /\ Displays(kind, field, trait, sentinel)
        /\ \A i \in 1..Len(log) : log[i].op \notin {"um", "um0"}

\* C3: update_model never writes the model attribute when the value it read
\* from the widget equals the attribute's value; it writes at most once per
\* call, the value it read, and only when the two differ; a choice binding
\* with no item selected writes nothing.
C3_EqualityGuard ==
    HasUpdateModel(kind) =>
        \A i \in 1..Len(log) :
            /\ log[i].op = "um" =>
                  /\ Cardinality(WritesBy(i)) <= 1
                  /\ PyEq(log[i].val, log[i].old) => WritesBy(i) = {}
                  /\ \A j \in WritesBy(i) :
                        /\ log[j].val = log[i].val
                        /\ ~PyEq(log[j].val, log[j].old)
            /\ log[i].op = "um0" => WritesBy(i) = {}

\* an update_model call found the widget's value equal to the attribute's
\* and another one, of a choice binding, found no item selected
C3_WitnessEqual ==
    /\ kind = "text" /\ bound
    /\ \E i \in 1..Len(log) :
          log[i].op = "um" /\ PyEq(log[i].val, log[i].old) /\ WritesBy(i) = {}

\* C4: update_view never calls the widget's setter with the value the
\* widget already shows.
C4_NoRedundantSet ==
    kind \in ScalarKinds =>
        \A i \in 1..Len(log) :
            log[i].op = "set" => log[i].val # log[i].old

\* C5 as claimed: a read-only binding never calls update_model and never
\* writes the model attribute, during construction or after it.
C5_ReadonlyNeverWrites ==
    (HasReadonly(kind) /\ readonly) => ~BindingWrote

\* C5, amended: a read-only binding binds no widget event to update_model,
\* so once the constructor has returned it never calls update_model and
\* never writes the model attribute; the constructors of the read-only
\* check, text, slider and date/time bindings do neither as well.
C5_ReadonlyAfterConstruction ==
    (HasReadonly(kind) /\ readonly /\ pc = "ready") =>
        /\ ~bound
        /\ (last.act # "Construct" \/ kind \in {"check", "text", "slider", "datetime"})
               => ~BindingWrote

\* the user changed the widget of a read-only binding and the model
\* attribute kept its other value
C5_Witness ==
    /\ readonly /\ kind \in {"text", "choice", "date"}
    /\ last.act \in {"UserEdit", "UserSelect"}
    /\ ~Displays(kind, field, trait, sentinel)
    /\ (kind = "choice" => selection >= 0 /\ choices[selection + 1].key # trait)

\* the last action was an assignment by the application that changed the
\* model attribute
ModelChanged ==
    /\ last.act = "ModelSet"
    /\ Len(log) > 0
    /\ log[1].op = "write" /\ log[1].id = -1
    /\ ~PyEq(log[1].old, log[1].val)

\* C6: after construction, every change of the bound model attribute to v
\* calls update_view and leaves the widget showing v (the combo binding: the
\* display text of v; the date/time binding also for null).
C6_ModelChangeShown ==
    (pc = "ready" /\ ModelChanged
       /\ kind \in {"text", "choice", "show", "focus", "status", "combo", "datetime"}) =>
        /\ subscribed
        /\ \E i \in 1..Len(log) : log[i].op = "uv" /\ log[i].val = last.arg
        /\ kind # "choice" => Displays(kind, field, last.arg, sentinel)
        /\ (kind = "choice" /\ KeyIndex(choices, last.arg) > 0) =>
               selection = KeyIndex(choices, last.arg) - 1

\* C7: ChoiceBinding.update_view with a value that is not among the keys of
\* the choices (the empty choice set included) leaves the selection as it
\* was, raises nothing and does not write the model attribute.
C7_AbsentValueIgnored ==
    kind = "choice" =>
        /\ ~err
        /\ \A i \in 1..Len(log) :
              (log[i].op = "uv" /\ KeyIndex(choices, log[i].val) = 0) =>
                  /\ i < Len(log) => log[i + 1].op \in {"um", "um0"}
                  /\ last.act = "ModelSet" =>
                        /\ selection = log[i].old.n
                        /\ trait = last.arg
                        /\ i = Len(log)

\* the model attribute was set to a value that is not a key while an item
\* was selected
C7_Witness ==
    /\ kind = "choice" /\ last.act = "ModelSet"
    /\ Len(choices) > 0 /\ selection >= 0
    /\ KeyIndex(choices, last.arg) = 0
    /\ \E i \in 1..Len(log) : log[i].op = "uv"

\* C8: every replacement of the dynamic choice set rebuilds the widget's
\* items from the new set and calls update_model exactly once afterwards;
\* then the selection is valid for the new set or empty, and the model
\* attribute is the key of the selected item.
C8_ChoicesReplaced ==
    (kind = "choice" /\ dynamic /\ last = [act |-> "ChoicesSet", arg |-> Bool(TRUE)]) =>
        /\ choices = source
        /\ items = ItemsOf(source)
        /\ Cardinality({i \in 1..Len(log) : log[i].op \in {"um", "um0"}}) = 1
        /\ selection = -1 \/ ChoiceInRange(selection, choices)
        /\ selection >= 0 => choices[selection + 1].key = trait


(***************************************************************************)
(* The grid binding.  g is the binding with its grid and its table.        *)
(***************************************************************************)
\* the table grows to at most MaxRows rows
MaxRows == 3

Cols == {0, 1}

Cells(n) == (0..(n - 1)) \X Cols

GEntry(op, at, cell, ok) == [op |-> op, at |-> at, cell |-> cell, ok |-> ok]

GLogged(g, e) == [g EXCEPT !.log = Append(@, e)]

\* the table's commits succeed when the values they commit pass validation
SaveCell(g, cell) == cell \notin g.invalid

SaveRow(g, row) == \A c \in Cols : <<row, c>> \notin g.invalid

SaveCol(g, col) == \A r \in 0..(g.numRows - 1) : <<r, col>> \notin g.invalid

\* table.CreateRow(): a new last row
CreateRow(g) ==
    GLogged([g EXCEPT !.numRows = @ + 1],
            GEntry("CreateRow", g.cursor, <<g.numRows, 0>>, TRUE))

\* the index of row r once the rows of S below it are gone
ShiftedRow(r, S) == r - Cardinality({x \in S : x < r})

\* table.DeleteRows(S)
DeleteRows(g, S) ==
    GLogged([g EXCEPT
                !.numRows = @ - Cardinality(S),
                !.invalid = {<<ShiftedRow(cell[1], S), cell[2]>> :
                                 cell \in {x \in @ : x[1] \notin S}}],
            GEntry("DeleteRows", g.cursor, g.cursor, TRUE))

\* GridBinding.on_cell_changed
on_cell_changed(g, cell) ==
    LET g0 == GLogged(g, GEntry("cell_changed", g.cursor, cell, TRUE))
    IN  IF g.commit_on = "cell"
        THEN LET ok == SaveCell(g0, cell)
                 g1 == GLogged(g0, GEntry("SaveCell", g.cursor, cell, ok))
             IN  IF ~ok THEN [g1 EXCEPT !.veto_next_select_cell = TRUE] ELSE g1
        ELSE g0

\* grid.DisableCellEditControl(): the edit control closes; when its value
\* was changed the value goes to the table and EVT_GRID_CELL_CHANGED fires
DisableCellEditControl(g) ==
    IF ~g.editing THEN g
    ELSE LET g1 == GLogged([g EXCEPT !.editing = FALSE, !.editText = "same"],
                           GEntry("disable", g.cursor, g.cursor, TRUE))
         IN  IF g.editText = "same" THEN g1
             ELSE on_cell_changed(
                      [g1 EXCEPT !.invalid = IF g.editText = "bad"
                                             THEN @ \cup {g.cursor}
                                             ELSE @ \ {g.cursor}],
                      g.cursor)

\* evt.Veto() / evt.Skip()
Veto(g) == GLogged([g EXCEPT !.vetoed = TRUE], GEntry("veto", g.cursor, g.cursor, FALSE))

Skip(g) == GLogged(g, GEntry("skip", g.cursor, g.cursor, TRUE))

\* the tests of on_select_cell: which moves need a commit
\* tests that look at the wrong coordinate
RowNeedsSave_by_col(from, to) == from[2] # to[2]

CellNeedsSave_by_row(from, to) == from[1] # to[1]

CellNeedsSave(from, to) == from # to

RowNeedsSave(from, to) == from[1] # to[1]

ColNeedsSave(from, to) == from[2] # to[2]

\* GridBinding.on_select_cell, for a move of the cursor to the cell to
on_select_cell(g, to) ==
    LET from == g.cursor
        g0 == GLogged(g, GEntry("select", from, to, TRUE))
    IN  IF g.commit_on = "grid" THEN Skip(g0)
        ELSE IF g0.editing
        THEN LET g1 == DisableCellEditControl(g0)
                 g2 == GLogged([g1 EXCEPT !.pending = Append(@, to)],
                               GEntry("defer", from, to, TRUE))
             IN  Veto(g2)
        ELSE IF g.commit_on = "cell" /\ CellNeedsSave(from, to)
        THEN LET ok == SaveCell(g0, from)
                 g1 == GLogged(g0, GEntry("SaveCell", from, from, ok))
             IN  IF ~ok THEN Veto(g1) ELSE Skip(g1)
        ELSE IF g.commit_on = "row" /\ RowNeedsSave(from, to)
        THEN LET ok == SaveRow(g0, from[1])
                 g1 == GLogged(g0, GEntry("SaveRow", from, from, ok))
             IN  IF ~ok THEN Veto(g1) ELSE Skip(g1)
        ELSE IF g.commit_on = "col" /\ ColNeedsSave(from, to)
        THEN LET ok == SaveCol(g0, from[2])
                 g1 == GLogged(g0, GEntry("SaveCol", from, from, ok))
             IN  IF ~ok THEN Veto(g1) ELSE Skip(g1)
        ELSE Skip(g0)

\* grid.SetGridCursor(to), and the grid's own handling of a click or an arrow
\* key: EVT_GRID_SELECT_CELL is sent first; unless it is vetoed the grid
\* closes the edit control and moves the cursor
SetGridCursor(g, to) ==
    LET r == on_select_cell([g EXCEPT !.vetoed = FALSE], to)
    IN  IF r.vetoed THEN r
        ELSE LET r1 == DisableCellEditControl(r)
             IN  GLogged([r1 EXCEPT !.cursor = to],
                         GEntry("move", r1.cursor, to, TRUE))

\* GridBinding.do_select_cell
do_select_cell(g, to) ==
    LET g1 == IF ~g.veto_next_select_cell
              THEN SetGridCursor(g, to)
              ELSE GLogged(g, GEntry("drop", g.cursor, to, FALSE))
    IN  [g1 EXCEPT !.veto_next_select_cell = FALSE]

\* GridBinding.on_key_down, for Enter / Return
on_key_down_enter(g) ==
    LET g1 == DisableCellEditControl(g)
        g2 == IF g1.cursor[1] = g1.numRows - 1 THEN CreateRow(g1) ELSE g1
    IN  SetGridCursor(g2, <<g2.cursor[1] + 1, 0>>)

\* GridBinding.on_key_down, for Delete / Backspace with the rows S selected
on_key_down_delete_rows(g, S) == DeleteRows(g, S)

\* GridBinding.on_key_down, for Delete / Backspace with no row selected: the
\* cell's value becomes None, which the validation accepts (ok) or rejects
on_key_down_delete_cell(g, ok) ==
    on_cell_changed([g EXCEPT !.invalid = IF ok THEN @ \ {g.cursor}
                                          ELSE @ \cup {g.cursor}],
                    g.cursor)

(***************************************************************************)
(* The state machine of one grid binding.  A deferred do_select_cell runs  *)
(* before the next user gesture is handled.                                *)
(***************************************************************************)
G == [commit_on |-> commit_on, cursor |-> cursor, editing |-> editing,
      editText |-> editText, numRows |-> numRows, invalid |-> invalid,
      veto_next_select_cell |-> veto_next_select_cell, pending |-> pending,
      vetoed |-> FALSE, log |-> <<>>]

GBecomes(r, gesture) ==
    /\ cursor' = r.cursor
    /\ editing' = r.editing
    /\ editText' = r.editText
    /\ numRows' = r.numRows
    /\ invalid' = r.invalid
    /\ veto_next_select_cell' = r.veto_next_select_cell
    /\ pending' = r.pending
    /\ glog' = r.log
    /\ glast' = gesture
    /\ UNCHANGED commit_on
    /\ UNCHANGED <<bvars, lvars, pvars, ovars>>

\* no scalar binding is constructed
NoBinding ==
    /\ kind = "text"
    /\ readonly = FALSE
    /\ echo = FALSE
    /\ radio = FALSE
    /\ dynamic = FALSE
    /\ sentinel = Bool(TRUE)
    /\ trait = None
    /\ source = <<>>
    /\ field = Str("")
    /\ items = <<>>
    /\ selection = -1
    /\ choices = <<>>
    /\ bound = FALSE
    /\ subscribed = FALSE
    /\ dynSubscribed = FALSE
    /\ pc = "new"
    /\ err = FALSE
    /\ overflow = FALSE
    /\ log = <<>>
    /\ last = [act |-> "Init", arg |-> None]
    /\ prev = [act |-> "Init", arg |-> None]

\* GridBinding.__init__ on a table whose rows are all valid
GInit ==
    /\ NoList
    /\ NoPair
    /\ NoObserver
    /\ NoBinding
    /\ commit_on \in {"cell", "row", "col", "grid"}
    /\ numRows \in 1..MaxRows
    /\ cursor = <<0, 0>>
    /\ editing = FALSE
    /\ editText = "same"
    /\ invalid = {}
    /\ veto_next_select_cell = FALSE
    /\ pending = <<>>
    /\ glog = <<>>
    /\ glast = "Init"

\* the user opens the edit control on the cursor's cell and leaves the value
\* as it is ("same") or types a value the validation accepts or rejects
GBeginEdit ==
    /\ pending = <<>> /\ ~editing
    /\ \E x \in {"same", "ok", "bad"} :
          GBecomes([G EXCEPT !.editing = TRUE, !.editText = x], "BeginEdit")

\* the user clicks another cell, or moves to it with the keyboard
GMoveTo ==
    /\ pending = <<>>
    /\ \E to \in Cells(numRows) :
          /\ to # cursor
          /\ GBecomes(SetGridCursor(G, to), "MoveTo")

\* the call scheduled with wx.CallAfter runs
GDoSelectCell ==
    /\ pending # <<>>
    /\ GBecomes(do_select_cell([G EXCEPT !.pending = Tail(@)], Head(pending)),
                "DoSelectCell")

\* the user presses Enter
GKeyEnter ==
    /\ pending = <<>>
    /\ cursor[1] = numRows - 1 => numRows < MaxRows
    /\ GBecomes(on_key_down_enter(G), "KeyEnter")

\* the user presses Delete on the cursor's cell
GKeyDeleteCell ==
    /\ pending = <<>> /\ ~editing
    /\ \E ok \in BOOLEAN : GBecomes(on_key_down_delete_cell(G, ok), "KeyDeleteCell")

\* the user selects the rows S and presses Delete; the cursor's row index
\* stays inside the table
GKeyDeleteRows ==
    /\ pending = <<>> /\ ~editing
    /\ \E S \in SUBSET (0..(numRows - 1)) :
          /\ S # {}
          /\ cursor[1] < numRows - Cardinality(S)
          /\ GBecomes(on_key_down_delete_rows(G, S), "KeyDeleteRows")

GNext ==
    \/ GBeginEdit
    \/ GMoveTo
    \/ GDoSelectCell
    \/ GKeyEnter
    \/ GKeyDeleteCell
    \/ GKeyDeleteRows

SpecGrid == GInit /\ [][GNext]_vars


(***************************************************************************)
(* Properties of the grid binding.                                         *)
(***************************************************************************)
\* the last gesture made the call op, with this result, at position i of glog
Called(i, op, ok) == glog[i].op = op /\ glog[i].ok = ok

\* after position i the last gesture moved the cursor
MovedAfter(i) == \E j \in (i + 1)..Len(glog) : glog[j].op = "move"

\* C9, what the calls of one gesture look like with commit_on = 'row':
\* SaveRow is called only for a move to another row, for the row being left;
\* a move to another row comes right after a successful SaveRow of the row
\* being left; after a failed SaveRow the event is vetoed and the cursor
\* stays where it was.
C9_RowCalls ==
    commit_on = "row" =>
        \A i \in 1..Len(glog) :
            /\ glog[i].op = "SaveRow" =>
                  /\ i > 1 /\ glog[i - 1].op = "select"
                  /\ glog[i - 1].cell[1] # glog[i - 1].at[1]
                  /\ glog[i].cell[1] = glog[i - 1].at[1]
                  /\ i < Len(glog)
                  /\ glog[i + 1].op = (IF glog[i].ok THEN "skip" ELSE "veto")
                  /\ ~glog[i].ok => (cursor = glog[i].at /\ ~MovedAfter(i))
            /\ (glog[i].op = "select" /\ glog[i].cell[1] = glog[i].at[1]) =>
                  (i = Len(glog) \/ glog[i + 1].op # "SaveRow")
            /\ (glog[i].op = "move" /\ glog[i].cell[1] # glog[i].at[1]) =>
                  /\ i > 2
                  /\ Called(i - 2, "SaveRow", TRUE)
                  /\ glog[i - 2].cell[1] = glog[i].at[1]
                  /\ glog[i - 1].op = "skip"

\* C9: with commit_on = 'row' a move of the cursor inside its row never calls
\* SaveRow; every move to another row (a click or an arrow key, the deferred
\* move after the edit control was closed, Enter) calls SaveRow for the row
\* being left before the cursor changes; when SaveRow fails the move is
\* vetoed and the cursor stays on its row.
C9_RowCommit ==
    /\ []C9_RowCalls
    /\ [][(commit_on = "row" /\ cursor'[1] # cursor[1]) =>
              \E i \in 1..Len(glog') :
                  /\ glog'[i].op = "SaveRow" /\ glog'[i].ok
                  /\ glog'[i].cell[1] = cursor[1]
                  /\ \A c \in Cols : <<cursor[1], c>> \notin invalid']_vars

\* the deferred move to another row was vetoed by a failed SaveRow
C9_Witness ==
    /\ commit_on = "row" /\ glast = "DoSelectCell"
    /\ \E i \in 1..Len(glog) :
          /\ Called(i, "SaveRow", FALSE)
          /\ cursor = glog[i].at
          /\ glog[i - 1].cell[1] # cursor[1]

\* C10, what the calls of one gesture look like with commit_on = 'cell': a
\* move to another cell comes right after a successful SaveCell of the cell
\* being left; after a failed SaveCell the cursor stays where it was.
C10_CellCalls ==
    commit_on = "cell" =>
        \A i \in 1..Len(glog) :
            /\ (glog[i].op = "move" /\ glog[i].cell # glog[i].at) =>
                  /\ i > 2
                  /\ Called(i - 2, "SaveCell", TRUE)
                  /\ glog[i - 2].cell = glog[i].at
                  /\ glog[i - 1].op = "skip"
                  /\ glog[i].at \notin invalid
            /\ Called(i, "SaveCell", FALSE) =>
                  (cursor = glog[i].at /\ ~MovedAfter(i))

\* C10: with commit_on = 'cell' the cursor leaves a cell A only after
\* SaveCell(A) was called and succeeded on A's present value; when the commit
\* of A is rejected, in on_cell_changed or in on_select_cell, the pending
\* move is vetoed or dropped and the cursor stays on A.
C10_CellCommit ==
    /\ []C10_CellCalls
    /\ [][(commit_on = "cell" /\ cursor' # cursor) =>
              /\ \E i \in 1..Len(glog') :
                    Called(i, "SaveCell", TRUE)' /\ glog'[i].cell = cursor
              /\ cursor \notin invalid']_vars
    /\ [][(commit_on = "cell" /\ pending # <<>>
             /\ \E i \in 1..Len(glog) : Called(i, "SaveCell", FALSE)) =>
              (cursor' = cursor /\ pending' = <<>>)]_vars

\* the deferred move was dropped after on_cell_changed's commit was rejected
C10_Witness ==
    /\ commit_on = "cell" /\ glast = "DoSelectCell"
    /\ cursor \in invalid
    /\ \E i \in 1..Len(glog) : glog[i].op = "drop" /\ glog[i].cell # cursor

\* a commit of the binding was rejected among the calls l
Rejected(l) ==
    \E i \in 1..Len(l) : l[i].op \in {"SaveCell", "SaveRow", "SaveCol"} /\ ~l[i].ok

\* position of the first call op among the calls l, 0 when there is none
FirstCall(l, op) ==
    IF \E i \in 1..Len(l) : l[i].op = op
    THEN CHOOSE i \in 1..Len(l) :
             l[i].op = op /\ \A j \in 1..(i - 1) : l[j].op # op
    ELSE 0

\* C11: with commit_on in {cell, row, col}, a move of the cursor requested
\* while the edit control is open is vetoed, the edit control is disabled
\* first (its cell-changed handling and commit run before anything else), the
\* cursor stays and the move is scheduled; the scheduled step is the next
\* thing to run, and it leaves the cursor on the requested cell unless a
\* commit was rejected while the move was handled.
C11_DeferredMove ==
    /\ [][(commit_on # "grid" /\ editing /\ glast' = "MoveTo") =>
              /\ cursor' = cursor /\ ~editing'
              /\ Len(pending') = 1
              /\ glog'[1].op = "select" /\ glog'[1].cell = pending'[1]
              /\ glog'[2].op = "disable"
              /\ glog'[Len(glog')].op = "veto"
              /\ glog'[Len(glog') - 1].op = "defer"
              /\ ~MovedAfter(0)'
              /\ editText # "same" =>
                    /\ glog'[3].op = "cell_changed"
                    /\ commit_on = "cell" => glog'[4].op = "SaveCell"]_vars
    /\ [][pending # <<>> => (glast' = "DoSelectCell" /\ pending' = Tail(pending))]_vars
    /\ [][(pending # <<>> /\ ~Rejected(glog) /\ ~Rejected(glog')) =>
              cursor' = Head(pending)]_vars

\* C12: Enter with the cursor on the last row, in every commit_on mode and
\* whatever the commit of the row or cell being left reports: the edit
\* control is disabled before the last-row test creates the row, the row
\* count grows by exactly one, and afterwards the cursor is at column 0 of
\* the new row.
C12_EnterAppends ==
    [][(glast' = "KeyEnter" /\ cursor[1] = numRows - 1) =>
          /\ numRows' = numRows + 1
          /\ ~editing'
          /\ FirstCall(glog', "CreateRow") > FirstCall(glog', "disable")
          /\ cursor' = <<numRows, 0>>]_vars

\* C13: whenever a SaveCell / SaveRow / SaveCol called by the binding while
\* it handles a user gesture (a cursor move and its deferred step, Enter,
\* Delete) reports failure, the grid cursor and the table's row count are
\* after the gesture what they were before it.
C13_RejectionKeepsState ==
    [][Rejected(glog') => (cursor' = cursor /\ numRows' = numRows)]_vars


(***************************************************************************)
(* The list binding.  l is the binding with its list control, the table    *)
(* and the model's selection attribute.                                    *)
(***************************************************************************)
\* the table has MaxItems rows, with the indexes 0 .. MaxItems - 1
MaxItems == 6

Indexes == 0..(MaxItems - 1)

\* a chain of list handler calls longer than this is cut off
MaxListLog == 4 * MaxItems

\* the row objects of the table, in table order
TableRows == [i \in 1..MaxItems |-> [row |-> <<"row", i>>]]

RowObjects == {TableRows[i] : i \in 1..MaxItems}

\* table.GetRow(idx) / table.GetRowIndex(obj)
GetRow(idx) == TableRows[idx + 1]

GetRowIndex(obj) == (CHOOSE i \in 1..MaxItems : TableRows[i] = obj) - 1

LEntry(op, idx) == [op |-> op, idx |-> idx]

LLogged(l, op, idx) == [l EXCEPT !.log = Append(@, LEntry(op, idx))]

\* ListBinding.get_selected_indexes
get_selected_indexes(l) == {idx \in Indexes : idx \in l.sel}

\* the smallest index of S: a Python set of small ints is walked in order
FirstOf(S) == CHOOSE i \in S : \A j \in S : i <= j

RECURSIVE on_selection_update_view(_), on_selection_update_model(_, _)
RECURSIVE SetItemState(_, _, _), SetItemStates(_, _, _)

\* field.SetItemState(idx, state, mask) with the mask of the selected bit: the
\* item is selected (on) or deselected; when its state changes the control
\* sends EVT_LIST_ITEM_SELECTED / EVT_LIST_ITEM_DESELECTED
SetItemState(l, idx, on) ==
    LET l1 == LLogged([l EXCEPT !.sel = IF on THEN @ \cup {idx} ELSE @ \ {idx}],
                      IF on THEN "select" ELSE "deselect", idx)
    IN  IF l.echo /\ (idx \in l.sel) # on
        THEN on_selection_update_view(l1)
        ELSE l1

\* for idx in S: self.field.SetItemState(idx, ...)
SetItemStates(l, S, on) ==
    IF S = {} THEN l
    ELSE SetItemStates(SetItemState(l, FirstOf(S), on), S \ {FirstOf(S)}, on)

\* a handler that writes back only the first selected row
on_selection_update_view_first(l) ==
    IF Len(l.log) >= MaxListLog THEN [l EXCEPT !.overflow = TRUE]
    ELSE LET cur == get_selected_indexes(l)
             value == IF cur = {} THEN {} ELSE {GetRow(FirstOf(cur))}
             l1 == LLogged([l EXCEPT !.model = value], "setattr", -1)
         IN  IF value # l.model THEN on_selection_update_model(l1, value)
             ELSE l1

\* ListBinding.on_selection_update_view; the assignment notifies the
\* subscribed on_selection_update_model when the selection changes
on_selection_update_view(l) ==
    IF Len(l.log) >= MaxListLog THEN [l EXCEPT !.overflow = TRUE]
    ELSE LET value == {GetRow(idx) : idx \in get_selected_indexes(l)}
             l1 == LLogged([l EXCEPT !.model = value], "setattr", -1)
         IN  IF value # l.model THEN on_selection_update_model(l1, value)
             ELSE l1

\* a handler that clears the whole selection and selects the new rows again
on_selection_update_model_clears(l, new) ==
    LET cur == get_selected_indexes(l)
        nw == {GetRowIndex(obj) : obj \in new}
        l0 == LLogged(l, "update_model", -1)
        l1 == SetItemStates(l0, cur, FALSE)
    IN  SetItemStates(l1, nw, TRUE)

\* ListBinding.on_selection_update_model
on_selection_update_model(l, new) ==
    IF Len(l.log) >= MaxListLog THEN [l EXCEPT !.overflow = TRUE]
    ELSE LET cur == get_selected_indexes(l)
             nw == {GetRowIndex(obj) : obj \in new}
             l0 == LLogged(l, "update_model", -1)
             l1 == SetItemStates(l0, cur \ nw, FALSE)
         IN  SetItemStates(l1, nw \ cur, TRUE)

(***************************************************************************)
(* The state machine of one list binding.                                  *)
(***************************************************************************)
L == [sel |-> lsel, model |-> lmodel, echo |-> lecho, overflow |-> FALSE,
      log |-> <<>>]

LBecomes(r, act, arg) ==
    /\ lsel' = r.sel
    /\ lmodel' = r.model
    /\ loverflow' = r.overflow
    /\ llog' = r.log
    /\ llast' = [act |-> act, arg |-> arg]
    /\ UNCHANGED lecho
    /\ UNCHANGED <<bvars, gvars, pvars, ovars>>

\* ListBinding.__init__ on a fresh list control: nothing is selected, and the
\* constructor does not look at the model's selection
LInit ==
    /\ NoBinding
    /\ NoGrid
    /\ NoPair
    /\ NoObserver
    /\ lsel = {}
    /\ lmodel \in SUBSET RowObjects
    /\ lecho \in BOOLEAN
    /\ loverflow = FALSE
    /\ llog = <<>>
    /\ llast = [act |-> "Init", arg |-> {}]

\* the application assigns the rows N to the model's selection attribute
ListSetSelection ==
    \E N \in SUBSET RowObjects :
        LBecomes(IF N # lmodel
                 THEN on_selection_update_model([L EXCEPT !.model = N], N)
                 ELSE L,
                 "SetSelection", N)

\* the user clicks the item idx: its selection toggles and the control sends
\* EVT_LIST_ITEM_SELECTED / EVT_LIST_ITEM_DESELECTED
ListUserToggle ==
    \E idx \in Indexes :
        LBecomes(on_selection_update_view(
                     [L EXCEPT !.sel = IF idx \in @ THEN @ \ {idx}
                                       ELSE @ \cup {idx}]),
                 "UserToggle", {GetRow(idx)})

LNext ==
    \/ ListSetSelection
    \/ ListUserToggle

SpecList == LInit /\ [][LNext]_vars

(***************************************************************************)
(* Properties of the list binding.                                         *)
(***************************************************************************)
\* the indexes for which the last action called SetItemState with op
Issued(op) == {llog[i].idx : i \in {j \in 1..Len(llog) : llog[j].op = op}}

\* the number of SetItemState calls of the last action
IssuedCount ==
    Cardinality({i \in 1..Len(llog) : llog[i].op \in {"select", "deselect"}})

\* C14: on_selection_update_model, called with the widget selection C and a
\* model selection whose rows have the indexes N, deselects exactly the
\* indexes of C \ N and selects exactly those of N \ C, each once, touches no
\* index of C \cap N, and leaves the widget selection equal to N.
C14_SelectionDiff ==
    [][(llast'.act = "SetSelection" /\ llast'.arg # lmodel) =>
           LET C == lsel
               N == {GetRowIndex(obj) : obj \in llast'.arg}
           IN  /\ Issued("deselect")' = C \ N
               /\ Issued("select")' = N \ C
               /\ IssuedCount' = Cardinality(C \ N) + Cardinality(N \ C)
               /\ lsel' = N
               /\ ~loverflow']_vars

\* the instance C = {1, 3}, N = {3, 5}: 1 was deselected and 5 selected
C14_Witness ==
    /\ llast.act = "SetSelection"
    /\ llast.arg = {GetRow(3), GetRow(5)}
    /\ Issued("deselect") = {1} /\ Issued("select") = {5}
    /\ lsel = {3, 5}
    /\ lecho


(***************************************************************************)
(* Two read-write TextBindings on the same model attribute, each with its  *)
(* own text field.  p is the attribute with the two fields.                *)
(***************************************************************************)
Widgets == {1, 2}

\* the string values of the attribute, and the texts a user types
PairStrings == {Str(x) : x \in Strings}

PEntry(op, who, val) == [op |-> op, who |-> who, val |-> val]

PLogged(p, op, who, val) == [p EXCEPT !.log = Append(@, PEntry(op, who, val))]

RECURSIVE Pair_setattr(_, _), Pair_notify(_, _, _), Pair_update_view(_, _, _)
RECURSIVE Pair_SetValue(_, _, _), Pair_update_model(_, _)

\* setattr(self.instance, self.trait, value): a changed value is handed to
\* the subscribed update_view of each binding
Pair_setattr(p, v) ==
    IF Len(p.log) >= MaxLog THEN [p EXCEPT !.overflow = TRUE]
    ELSE LET p1 == PLogged([p EXCEPT !.trait = v], "write", 0, v)
         IN  IF Notifies(p.trait, v) THEN Pair_notify(p1, p1.subs, v) ELSE p1

\* a notification that reaches the first subscriber only
Pair_notify_first(p, subs, v) ==
    IF subs = <<>> THEN p ELSE Pair_update_view(p, Head(subs), v)

\* the subscribers are called in the order they subscribed
Pair_notify(p, subs, v) ==
    IF subs = <<>> THEN p
    ELSE Pair_notify(Pair_update_view(p, Head(subs), v), Tail(subs), v)

\* TextBinding.update_view of the binding of widget w
Pair_update_view(p, w, new) ==
    LET p1 == PLogged(p, "uv", w, new)
    IN  IF TextViewGuard(p.field[w], new)
        THEN Pair_SetValue(p1, w, Str(TextDisplay(new)))
        ELSE p1

\* self.field.SetValue(...) on widget w; the EVT_TEXT it fires reaches
\* update_model once the constructor has bound it
Pair_SetValue(p, w, val) ==
    IF Len(p.log) >= MaxLog THEN [p EXCEPT !.overflow = TRUE]
    ELSE LET p1 == PLogged([p EXCEPT !.field[w] = val], "set", w, val)
         IN  IF p.echo /\ w \in p.bound THEN Pair_update_model(p1, w) ELSE p1

\* TextBinding.update_model of the binding of widget w
Pair_update_model(p, w) ==
    LET value == p.field[w]
        p1 == PLogged(p, "um", w, value)
    IN  IF TextGuard(p.trait, value) THEN Pair_setattr(p1, value) ELSE p1

\* TextBinding.__init__ for widget w
Pair_init(p, w) ==
    LET p1 == Pair_update_view([p EXCEPT !.subs = Append(@, w)], w, p.trait)
    IN  [p1 EXCEPT !.bound = @ \cup {w}]

P == [trait |-> ptrait, field |-> pfield, subs |-> psubs,
      bound |-> {psubs[i] : i \in 1..Len(psubs)}, echo |-> pecho,
      overflow |-> FALSE, log |-> <<>>]

PBecomes(r, act, who, arg) ==
    /\ ptrait' = r.trait
    /\ pfield' = r.field
    /\ psubs' = r.subs
    /\ poverflow' = r.overflow
    /\ plog' = r.log
    /\ plast' = [act |-> act, who |-> who, arg |-> arg]
    /\ UNCHANGED pecho
    /\ UNCHANGED <<bvars, gvars, lvars, ovars>>

\* the attribute holds a string and the two text fields show anything
PInit ==
    /\ NoBinding
    /\ NoGrid
    /\ NoList
    /\ NoObserver
    /\ ptrait \in PairStrings
    /\ pfield \in [Widgets -> {Str(""), Str("Kees")}]
    /\ psubs = <<>>
    /\ pecho \in BOOLEAN
    /\ poverflow = FALSE
    /\ plog = <<>>
    /\ plast = [act |-> "Init", who |-> 0, arg |-> None]

\* a TextBinding is constructed for a widget that has none
PairConstruct ==
    \E w \in Widgets :
        /\ \A i \in 1..Len(psubs) : psubs[i] # w
        /\ PBecomes(Pair_init(P, w), "Construct", w, ptrait)

\* the application assigns a string to the attribute
PairModelSet ==
    \E v \in PairStrings : PBecomes(Pair_setattr(P, v), "ModelSet", 0, v)

\* the user types a text into the field of a bound widget: one EVT_TEXT
PairUserEdit ==
    \E w \in Widgets, v \in PairStrings :
        /\ \E i \in 1..Len(psubs) : psubs[i] = w
        /\ v # pfield[w]
        /\ PBecomes(Pair_update_model([P EXCEPT !.field[w] = v], w),
                    "UserEdit", w, v)

PNext ==
    \/ PairConstruct
    \/ PairModelSet
    \/ PairUserEdit

SpecPair == PInit /\ [][PNext]_vars

\* C15: two read-write TextBindings on the same attribute, through two
\* widgets: after every user edit in either widget and every assignment of a
\* string to the attribute, when the calls it triggered have run (and they
\* all run: the chain is not cut off), both widgets show the same text and
\* that text is the value of the attribute.
C15_PairInSync ==
    Len(psubs) = 2 =>
        /\ ~poverflow
        /\ pfield[1] = pfield[2]
        /\ pfield[1] = ptrait

\* the user typed a new text into the second widget, and the first widget
\* was set to it
C15_Witness ==
    /\ Len(psubs) = 2 /\ pecho
    /\ plast.act = "UserEdit" /\ plast.who = 2
    /\ pfield[1] = plast.arg /\ ptrait = plast.arg
    /\ \E i \in 1..Len(plog) : plog[i] = PEntry("set", 1, plast.arg)


(***************************************************************************)
(* Further properties of the scalar, choice and combo bindings.            *)
(***************************************************************************)
\* C16: DateBinding's constructor replaces a null attribute by a default, so
\* the attribute is not null when the constructor returns, and in no later
\* state (after any model changes and date-changed events) was update_view
\* given a null value to show in the spinner.
C16_DateNeverNull ==
    (kind = "date" /\ pc = "ready") =>
        /\ last.act = "Construct" => trait # None
        /\ \A i \in 1..Len(log) : log[i].op = "uv" => log[i].val # None
        /\ ~err

\* C17: ShowBinding and EnabledBinding follow one rule: with a boolean
\* sentinel the widget is shown / enabled iff the truth value of the model
\* value equals the sentinel; with any other sentinel (the integers 0 and 1
\* too) iff the model value equals the sentinel itself, without coercion.
C17_SentinelRule ==
    (kind \in {"show", "enable"} /\ pc = "ready") =>
        field = Bool(IF sentinel.t = "bool"
                     THEN Bool(Truthy(trait)) = sentinel
                     ELSE PyEq(trait, sentinel))

\* the writes of the attribute among the calls l
Writes(l) == {i \in 1..Len(l) : l[i].op = "write"}

\* C18: ComboBinding.on_text with a committed selection (index # -1) changes
\* neither the attribute nor the suggestion list; without one, the
\* suggestion list becomes exactly the provider's results for the text, in
\* order, and the attribute is set to null iff the text is empty.  A
\* selection event with a valid index writes the selected item's key to the
\* attribute only if it differs.
C18_ComboText ==
    [][(kind = "combo" /\ pc = "ready") =>
          /\ last'.act = "ComboType" =>
                /\ items' = GetChoices(last'.arg.s)
                /\ last'.arg.s = "" =>
                      (trait' = None /\ \A i \in Writes(log') : log'[i].val = None)
                /\ last'.arg.s # "" => (trait' = trait /\ Writes(log') = {})
          /\ last'.act = "ComboPick" =>
                LET key == items[last'.arg.n + 1].key
                IN  /\ items' = items
                    /\ trait' = key
                    /\ log'[1].op = "um"
                    /\ Writes(log') = IF PyEq(trait, key) THEN {} ELSE {2}
                    /\ echo => log'[Len(log')].op = "text"
          /\ \A i \in Writes(log') :
                (log'[i].id > 0 /\ log'[log'[i].id].op = "text") =>
                    (log'[i].val = None /\ ~Truthy(log'[log'[i].id].val))]_vars

\* the user picked another item, its key was written, and the EVT_TEXT that
\* followed the selection left the two suggestions alone
C18_Witness ==
    /\ kind = "combo" /\ last.act = "ComboPick" /\ echo
    /\ Len(items) = 2
    /\ Writes(log) = {2}
    /\ log[Len(log)].op = "text"
    /\ trait = items[selection + 1].key


(***************************************************************************)
(* The observable model the bindings rely on, as the test of the wrapper   *)
(* uses it: a wrapped model object with one attribute and one callback.    *)
(***************************************************************************)
\* the callback is called at most MaxCalls times
MaxCalls == 3

\* the values assigned to the attribute
ObservedValues == {None} \cup {Str(x) : x \in Strings}

\* a callback that forgets the value it is called with
callback_drops(o, value) == o

\* def callback(value): calls.append(value)
callback(o, value) == [o EXCEPT !.calls = Append(@, value)]

\* obj.on_trait_change(callback, 'first_name')
on_trait_change(o) == [o EXCEPT !.subscribed = TRUE]

\* obj.first_name = value: the attribute takes the value and, when it
\* changed, the subscribed callback is called before the assignment returns
Observable_set(o, value) ==
    LET o1 == [o EXCEPT !.value = value]
    IN  IF o.subscribed /\ Notifies(o.value, value) THEN callback(o1, value)
        ELSE o1

O == [value |-> ovalue, subscribed |-> osubscribed, calls |-> ocalls]

OBecomes(r, act, arg) ==
    /\ ovalue' = r.value
    /\ osubscribed' = r.subscribed
    /\ ocalls' = r.calls
    /\ olast' = [act |-> act, arg |-> arg]
    /\ UNCHANGED <<bvars, gvars, lvars, pvars>>

\* wrap(Skater(first_name=name)), calls = []
OInit ==
    /\ NoBinding
    /\ NoGrid
    /\ NoList
    /\ NoPair
    /\ ovalue \in ObservedValues
    /\ osubscribed = FALSE
    /\ ocalls = <<>>
    /\ olast = [act |-> "Init", arg |-> None]

ObservableSubscribe ==
    /\ ~osubscribed
    /\ OBecomes(on_trait_change(O), "Subscribe", None)

ObservableAssign ==
    /\ Len(ocalls) < MaxCalls
    /\ \E v \in ObservedValues : OBecomes(Observable_set(O, v), "Assign", v)

ONext ==
    \/ ObservableSubscribe
    \/ ObservableAssign

SpecObservable == OInit /\ [][ONext]_vars

C20_NoFeedbackLoop ==
    (kind \in {"text", "slider", "check", "choice"} /\ ~readonly /\ echo) =>
        ~overflow

\* a model change set the widget, the widget's event ran update_model, and
\* the chain ended there
C20_Witness ==
    /\ kind \in {"text", "slider", "check", "choice"} /\ ~readonly /\ echo
    /\ last.act = "ModelSet" /\ ~overflow
    /\ \E i \in 1..Len(log) : log[i].op = "set"
    /\ log[Len(log)].op \in {"um", "um0"}


(***************************************************************************)
(* The veto flag of the grid binding.                                      *)
(***************************************************************************)
\* C21: veto_next_select_cell is one-shot and belongs to its own move: a
\* deferred do_select_cell is dropped only if the cell commit made when the
\* edit control was closed for that same move was rejected; a deferred move
\* whose commit succeeded is applied, also after earlier rejected commits
\* that had no deferred move (Delete, Enter); the flag is never set when a
\* new edit begins.
C21_VetoOneShot ==
    /\ [][glast' = "BeginEdit" => ~veto_next_select_cell]_vars
    /\ [][(glast' = "DoSelectCell"
             /\ \E i \in 1..Len(glog') : glog'[i].op = "drop") =>
              \E i \in 1..Len(glog) : Called(i, "SaveCell", FALSE)]_vars


(***************************************************************************)
(* The text binding and the echo of its own SetValue.                      *)
(***************************************************************************)
\* C22: for a read-write TextBinding whose field fires EVT_TEXT when its
\* value is set, after the application has set the attribute to a value v
\* (a string, None, a number such as 0 or 5) and the calls this triggered
\* have run, the attribute still equals v: update_model never replaces the
\* value by another one read back from the field.
C22_NoEchoOverwrite ==
    (kind = "text" /\ ~readonly /\ echo /\ last.act = "ModelSet") =>
        PyEq(trait, last.arg)


(***************************************************************************)
(* The list binding when its own selection calls fire selection events.    *)
(***************************************************************************)
\* the number of write-backs of the selection during the last list action
WriteBacks == Cardinality({i \in 1..Len(llog) : llog[i].op = "setattr"})

\* C23: the model's selection is changed to a set S of rows of the table,
\* and every select / deselect of the binding fires the selection event,
\* whose handler writes the rows of the widget's selection back to the model
\* and so re-enters on_selection_update_model: when all handlers have
\* returned, the widget's selected indexes are exactly those of S, the
\* model's selection holds exactly the rows of S, and no select / deselect
\* happened outside the original difference.
C23_ListRoundTrip ==
    [][(lecho /\ llast'.act = "SetSelection" /\ llast'.arg # lmodel) =>
           LET S == llast'.arg
               N == {GetRowIndex(obj) : obj \in S}
           IN  /\ ~loverflow'
               /\ lsel' = N
               /\ lmodel' = S
               /\ WriteBacks' = IssuedCount'
               /\ Issued("deselect")' \subseteq lsel \ N
               /\ Issued("select")' \subseteq N \ lsel]_vars

\* one row was deselected and another selected, each event wrote an
\* intermediate selection back, and the model ended with the rows assigned
C23_Witness ==
    /\ lecho /\ llast.act = "SetSelection"
    /\ Issued("deselect") # {} /\ Issued("select") # {}
    /\ WriteBacks >= 2
    /\ lmodel = llast.arg
    /\ lsel = {GetRowIndex(obj) : obj \in lmodel}

====
